---- MODULE Spec2Model ----
(***************************************************************************)
(* Model of backend/app.py: the question-generation endpoint with its      *)
(* retry loop around the external generative API, and the in-memory        *)
(* session store written by the transcription endpoint and read by the     *)
(* session and export endpoints.                                           *)
(***************************************************************************)
EXTENDS Integers, Sequences, FiniteSets, TLC

VARIABLES
    gq_pc,              \* generate_questions: "idle", "attempt" (in the retry loop), "done"
    gq_req,             \* the request body generate_questions received
    contents_parts,     \* the list contents_parts built by lines 73-114
    attempt,            \* the loop variable of `for attempt in range(max_retries)`
    json_text,          \* the local json_text; Unbound until line 160 assigns it
    hist,               \* the upstream outcomes this call has received, in order
    sleeps,             \* the arguments of the time.sleep calls made, in order
    gq_resp,            \* the response generate_questions returned
    interview_sessions, \* session id -> list object and its records
    next_list,          \* the next list object to be allocated by line 260
    next_req,           \* the number of transcribe requests accepted so far
    t_pc,               \* per worker thread: position inside transcribe_audio
    t_local,            \* per worker thread: the locals of transcribe_audio
    t_resp,             \* per worker thread: the response transcribe_audio returned
    r_pc,               \* reader thread: position inside get_session / export_session
    r_local,            \* reader thread: session id and the artifact written so far
    r_resp              \* reader thread: the response returned

gq_vars    == <<gq_pc, gq_req, contents_parts, attempt, json_text, hist, sleeps, gq_resp>>
store_vars == <<interview_sessions, next_list, next_req, t_pc, t_local, t_resp,
                r_pc, r_local, r_resp>>
vars       == <<gq_pc, gq_req, contents_parts, attempt, json_text, hist, sleeps, gq_resp,
                interview_sessions, next_list, next_req, t_pc, t_local, t_resp,
                r_pc, r_local, r_resp>>

-----------------------------------------------------------------------------
(* The upstream: what one requests.post can produce.                        *)

max_retries == 3

RetryableStatuses == {429, 500, 503}

\* Statuses the upstream is made to answer with.  304 stands for the
\* statuses below 400 that are not 2xx, 502 for a 5xx outside the retry list.
ErrorStatuses   == {400, 429, 500, 502, 503}
PassingStatuses == {200, 304}

ErrorTexts == {"quota exceeded", "overloaded"}

Unbound == "<unbound>"

\* The texts a candidate part can carry (the model's embedded JSON string).
Q1Text         == "[{\"type\":\"Technical\",\"text\":\"q1\"}]"
Q1Q2Text       == "[{\"type\":\"Technical\",\"text\":\"q1\"},{\"type\":\"Behavioral\",\"text\":\"q2\"}]"
EmptyListText  == "[]"
ObjectText     == "{\"type\":\"Technical\",\"text\":\"q1\"}"
GarbageText    == "Here are your questions:"
NoTextKeyText  == "[{\"type\":\"Technical\"}]"
NoTypeKeyText  == "[{\"type\":\"Technical\",\"text\":\"q1\"},{\"text\":\"q2\"}]"
NumberElemText == "[7]"
LateNumberText == "[{\"text\":\"q2\"},7]"
StringElemText == "[\"text and type\"]"

EmbeddedTexts == {Q1Text, Q1Q2Text, EmptyListText, ObjectText, GarbageText,
                  NoTextKeyText, NoTypeKeyText, NumberElemText, LateNumberText,
                  StringElemText}

\* One element of a parsed JSON array: its JSON type, the keys `k in q`
\* answers True for, and its content.
Elem(t, has, val) == [t |-> t, has |-> has, val |-> val]

ObjQ1     == Elem("object", {"type", "text"}, "Technical:q1")
ObjQ2     == Elem("object", {"type", "text"}, "Behavioral:q2")
ObjNoText == Elem("object", {"type"}, "Technical:")
ObjNoType == Elem("object", {"text"}, ":q2")
Num7      == Elem("number", {}, "7")
\* For a str, `k in q` is the substring test.
StrBoth   == Elem("string", {"type", "text"}, "text and type")

\* A parsed JSON value: its JSON type and, for an array, its elements.
JsonValue(t, elems) == [t |-> t, elems |-> elems]
NoValue == JsonValue("none", <<>>)

\* json.loads on the embedded text: ok is FALSE where it raises JSONDecodeError.
json_loads(text) ==
    CASE text = Q1Text         -> [ok |-> TRUE,  val |-> JsonValue("array", <<ObjQ1>>)]
      [] text = Q1Q2Text       -> [ok |-> TRUE,  val |-> JsonValue("array", <<ObjQ1, ObjQ2>>)]
      [] text = EmptyListText  -> [ok |-> TRUE,  val |-> JsonValue("array", <<>>)]
      [] text = ObjectText     -> [ok |-> TRUE,  val |-> JsonValue("object", <<>>)]
      [] text = NoTextKeyText  -> [ok |-> TRUE,  val |-> JsonValue("array", <<ObjNoText>>)]
      [] text = NoTypeKeyText  -> [ok |-> TRUE,  val |-> JsonValue("array", <<ObjQ1, ObjNoType>>)]
      [] text = NumberElemText -> [ok |-> TRUE,  val |-> JsonValue("array", <<Num7>>)]
      [] text = LateNumberText -> [ok |-> TRUE,  val |-> JsonValue("array", <<ObjNoType, Num7>>)]
      [] text = StringElemText -> [ok |-> TRUE,  val |-> JsonValue("array", <<StrBoth>>)]
      [] OTHER                 -> [ok |-> FALSE, val |-> NoValue]

\* The body of a response.  shape says what response.json() and the two
\* extraction lines meet; text is response.text of an error response, or the
\* text of the first part of the first candidate.
Body(shape, text) == [shape |-> shape, text |-> text]

ErrorBodies   == {Body("raw", t) : t \in ErrorTexts}
HtmlText == "<html>Service notice</html>"

PassingBodies == {Body(s, "") : s \in {"not_object", "no_candidates",
                                        "empty_candidates", "no_text"}}
                 \cup {Body("not_json", HtmlText)}
                 \cup {Body("text", t) : t \in EmbeddedTexts}

Outcome(kind, status, body) == [kind |-> kind, status |-> status, body |-> body]

\* kind "transport": requests.post raised a RequestException that is no HTTPError.
Outcomes ==
    {Outcome("transport", 0, Body("none", ""))}
    \cup {Outcome("http", s, b) : s \in ErrorStatuses, b \in ErrorBodies}
    \cup {Outcome("http", s, b) : s \in PassingStatuses, b \in PassingBodies}

-----------------------------------------------------------------------------
(* generate_questions: one pass through the body of the retry loop.         *)

\* Variant: only 5xx raises, a 4xx is read as a passing response.
raise_for_status_5xx_only(status) == status >= 500 /\ status < 600

\* response.raise_for_status(): HTTPError for 4xx and 5xx, nothing otherwise.
raise_for_status(status) == status >= 400 /\ status < 600

\* `'text' in q and 'type' in q` for one element: a dict answers by key, a
\* str by substring; a number supports no `in` and raises TypeError.
has_text_and_type(q) ==
    IF q.t \in {"number", "null", "boolean"} THEN "TypeError"
    ELSE IF "text" \in q.has /\ "type" \in q.has THEN "True"
    ELSE "False"

\* all(... for q in questions_list): stops at the first False, and lets a
\* TypeError of the element test through.
RECURSIVE all_have_text_and_type(_)
all_have_text_and_type(elems) ==
    IF elems = <<>> THEN "True"
    ELSE LET first == has_text_and_type(Head(elems))
         IN  IF first = "True" THEN all_have_text_and_type(Tail(elems))
             ELSE first

\* Variant: result['candidates'] and the later keys are subscripted, so a
\* missing key raises KeyError.
extract_json_text_subscript(body) ==
    CASE body.shape = "not_json"         -> [exc |-> "JSONDecodeError", text |-> ""]
      [] body.shape = "not_object"       -> [exc |-> "AttributeError", text |-> ""]
      [] body.shape = "empty_candidates" -> [exc |-> "IndexError", text |-> ""]
      [] body.shape = "no_candidates"    -> [exc |-> "KeyError", text |-> ""]
      [] body.shape = "no_text"          -> [exc |-> "KeyError", text |-> ""]
      [] OTHER                           -> [exc |-> "none", text |-> body.text]

\* Lines 156-160: what json_text is bound to, or the exception raised before.
extract_json_text(body) ==
    CASE body.shape = "not_json"         -> [exc |-> "JSONDecodeError", text |-> ""]
      [] body.shape = "not_object"       -> [exc |-> "AttributeError", text |-> ""]
      [] body.shape = "empty_candidates" -> [exc |-> "IndexError", text |-> ""]
      [] body.shape = "no_candidates"    -> [exc |-> "none", text |-> "[]"]
      [] body.shape = "no_text"          -> [exc |-> "none", text |-> "[]"]
      [] OTHER                           -> [exc |-> "none", text |-> body.text]

\* Lines 163-167: parse the text and validate the structure.
parse_and_validate(text) ==
    LET parsed == json_loads(text)
    IN  IF ~parsed.ok THEN [exc |-> "JSONDecodeError", questions_list |-> NoValue]
        ELSE IF parsed.val.t # "array"
             THEN [exc |-> "ValueError", questions_list |-> NoValue]
        ELSE LET checked == all_have_text_and_type(parsed.val.elems)
             IN  CASE checked = "True"  -> [exc |-> "none", questions_list |-> parsed.val]
                   [] checked = "False" -> [exc |-> "ValueError", questions_list |-> NoValue]
                   [] OTHER             -> [exc |-> "TypeError", questions_list |-> NoValue]

\* Lines 153-170, the try block: the exception it ends with ("none" when it
\* reaches the return), json_text afterwards, and the validated list.
try_block(o, jt) ==
    IF o.kind = "transport"
    THEN [exc |-> "RequestException", json_text |-> jt, questions_list |-> NoValue]
    ELSE IF raise_for_status(o.status)
    THEN [exc |-> "HTTPError", json_text |-> jt, questions_list |-> NoValue]
    ELSE LET ex == extract_json_text(o.body)
         IN  IF ex.exc # "none"
             THEN [exc |-> ex.exc, json_text |-> jt, questions_list |-> NoValue]
             ELSE LET pv == parse_and_validate(ex.text)
                  IN  [exc |-> pv.exc, json_text |-> ex.text,
                       questions_list |-> pv.questions_list]

\* A response: HTTP status, the `questions` value and the `error` value of
\* its JSON body (NoValue / NoError where the key is absent).
Error(msg, code, detail) == [msg |-> msg, code |-> code, detail |-> detail]
NoError == Error("", 0, "")
Response(status, questions, error) ==
    [status |-> status, questions |-> questions, error |-> error]
NoResponse == Response(0, NoValue, NoError)

HttpFailedMsg  == "Gemini API request failed: HTTP Error"
ParseFailedMsg == "Failed to parse structured response from AI after 3 attempts. Raw output:"
NetworkMsg     == "Network error communicating with Gemini API:"
ExhaustedMsg   == "Failed to generate questions after multiple retries."
InvalidJsonMsg == "Invalid JSON input:"
\* An exception no except clause catches leaves the view; Flask answers 500.
UnhandledMsg   == "Internal Server Error"

\* time.sleep(2 ** attempt)
backoff(a) == 2 ^ a

\* Variant: a retryable status is retried whatever the attempt number.
http_retry_unbounded(a, status) == status \in RetryableStatuses

\* Line 175: is an HTTPError retried?
http_retry(a, status) == a < max_retries - 1 /\ status \in RetryableStatuses

\* Variants: retried without a budget; given up one attempt early.
other_retry_unbounded(a) == TRUE
other_retry_one_short(a) == a < max_retries - 2

\* Lines 182 and 189: is a schema or network failure retried?
other_retry(a) == a < max_retries - 1

\* The except clauses, lines 172-192: what the loop does with the exception.
\* act is "return" or "continue"; slept is the sleeps made.
handle(o, a, r) ==
    CASE r.exc = "none" ->
            [act |-> "return", slept |-> <<>>,
             resp |-> Response(200, r.questions_list, NoError)]
      [] r.exc = "HTTPError" ->
            IF http_retry(a, o.status)
            THEN [act |-> "continue", slept |-> <<backoff(a)>>, resp |-> NoResponse]
            ELSE [act |-> "return", slept |-> <<>>,
                  resp |-> Response(o.status, NoValue,
                                    Error(HttpFailedMsg, o.status, o.body.text))]
      [] r.exc \in {"JSONDecodeError", "ValueError"} ->
            IF other_retry(a)
            THEN [act |-> "continue", slept |-> <<backoff(a)>>, resp |-> NoResponse]
            ELSE IF r.json_text = Unbound
            \* the f-string of line 185 reads a local never assigned
            THEN [act |-> "return", slept |-> <<>>,
                  resp |-> Response(500, NoValue,
                                    Error(UnhandledMsg, 0, "UnboundLocalError"))]
            ELSE [act |-> "return", slept |-> <<>>,
                  resp |-> Response(500, NoValue,
                                    Error(ParseFailedMsg, 0, r.json_text))]
      [] r.exc = "RequestException" ->
            IF other_retry(a)
            THEN [act |-> "continue", slept |-> <<backoff(a)>>, resp |-> NoResponse]
            ELSE [act |-> "return", slept |-> <<>>,
                  resp |-> Response(500, NoValue, Error(NetworkMsg, 0, "transport"))]
      [] OTHER ->
            [act |-> "return", slept |-> <<>>,
             resp |-> Response(500, NoValue, Error(UnhandledMsg, 0, r.exc))]

-----------------------------------------------------------------------------
(* generate_questions: the handler.                                         *)

\* A request body: kind says what request.get_json() and data.get meet; the
\* fields are those lines 55-65 read, "" where the key is absent or empty.
Request(kind, job_file_data, job_file_name, job_description, cv_file_data, cv_file_name) ==
    [kind |-> kind, job_file_data |-> job_file_data, job_file_name |-> job_file_name,
     job_description |-> job_description, cv_file_data |-> cv_file_data,
     cv_file_name |-> cv_file_name]
NoRequest == Request("none", "", "", "", "", "")

\* Bodies that are no JSON at all, or JSON that is no object.
MalformedBodies == {Request(k, "", "", "", "", "") : k \in {"unparseable", "not_object"}}

JobFileNames == {"jd.pdf", "jd.docx"}
CvFileNames  == {"cv.PDF"}

ObjectBodies ==
    {Request("object", "", "", jt, "", "") : jt \in {"", "Build APIs"}}
    \cup {Request("object", "", "", jt, "CV64", cn) : jt \in {"", "Build APIs"}, cn \in CvFileNames}
    \cup {Request("object", "JD64", jn, jt, "", "") :
             jn \in JobFileNames, jt \in {"", "Build APIs"}}
    \cup {Request("object", "JD64", jn, jt, "CV64", cn) :
             jn \in JobFileNames, jt \in {"", "Build APIs"}, cn \in CvFileNames}

RequestBodies == MalformedBodies \cup ObjectBodies

\* Variant: a body that is no object is read with the defaults.
request_raises_never(b) == FALSE

\* Lines 53-68: does request.get_json() or a data.get call raise?
request_raises(b) == b.kind # "object"

\* Lines 47-49.
total_questions    == 20
jd_questions_count == 15
cv_questions_count == 5

\* Lines 31-39; filename.lower().endswith('.pdf') decided per file name.
get_mime_type(filename) ==
    IF filename \in {"jd.pdf", "cv.PDF"} THEN "application/pdf"
    ELSE IF filename \in {"jd.docx"} THEN "application/octet-stream"
    ELSE "application/octet-stream"

\* One sentence of user_query and the count its f-string prints (0: none).
Sentence(kind, count) == [kind |-> kind, count |-> count]

\* A part of the request: inlineData with mime type and data, or text; the
\* text of the last part is user_query, kept as its sentences.
Part(kind, mime, data, query) == [kind |-> kind, mime |-> mime, data |-> data, query |-> query]

\* Variant: the CV sentence is written whether or not a CV came.
build_user_query_cv_always(b) ==
    <<Sentence("total", total_questions), Sentence("balance", 0)>>
    \o (IF b.job_file_data # "" \/ b.job_description # ""
        THEN <<Sentence("job", jd_questions_count)>> ELSE <<>>)
    \o <<Sentence("cv", cv_questions_count)>>

\* Lines 100-111.
build_user_query(b) ==
    <<Sentence("total", total_questions), Sentence("balance", 0)>>
    \o (IF b.job_file_data # "" \/ b.job_description # ""
        THEN <<Sentence("job", jd_questions_count)>> ELSE <<>>)
    \o (IF b.cv_file_data # ""
        THEN <<Sentence("cv", cv_questions_count)>> ELSE <<>>)

\* Variant: the job text is added next to the job document.
job_parts_both(b) ==
    (IF b.job_file_data # ""
     THEN <<Part("inlineData", get_mime_type(b.job_file_name), b.job_file_data, <<>>)>>
     ELSE <<>>)
    \o (IF b.job_description # ""
        THEN <<Part("text", "", b.job_description, <<>>)>> ELSE <<>>)

\* Lines 76-86: the job part.
job_parts(b) ==
    IF b.job_file_data # ""
    THEN <<Part("inlineData", get_mime_type(b.job_file_name), b.job_file_data, <<>>)>>
    ELSE IF b.job_description # ""
    THEN <<Part("text", "", b.job_description, <<>>)>>
    ELSE <<>>

\* Lines 89-97: the CV part.
cv_parts(b) ==
    IF b.cv_file_data # ""
    THEN <<Part("inlineData", get_mime_type(b.cv_file_name), b.cv_file_data, <<>>)>>
    ELSE <<>>

\* Lines 73-114.
build_contents_parts(b) ==
    job_parts(b) \o cv_parts(b) \o <<Part("text", "", "", build_user_query(b))>>

\* Variant: an accepted request opens a session for its answers.
GQRequestOn_opens_session(bodies) ==
    /\ gq_pc = "idle"
    /\ \E b \in bodies :
          /\ gq_req' = b
          /\ IF request_raises(b)
             THEN /\ gq_pc' = "done"
                  /\ gq_resp' = Response(400, NoValue, Error(InvalidJsonMsg, 0, ""))
                  /\ UNCHANGED <<attempt, contents_parts, interview_sessions, next_list>>
             ELSE /\ gq_pc' = "attempt"
                  /\ contents_parts' = build_contents_parts(b)
                  /\ attempt' = 0
                  /\ interview_sessions' =
                        [k \in DOMAIN interview_sessions \cup {"s1"} |->
                            IF k \in DOMAIN interview_sessions
                            THEN interview_sessions[k]
                            ELSE [obj |-> next_list, recs |-> <<>>]]
                  /\ next_list' = next_list + 1
                  /\ UNCHANGED gq_resp
    /\ UNCHANGED <<json_text, hist, sleeps>>
    /\ UNCHANGED <<next_req, t_pc, t_local, t_resp, r_pc, r_local, r_resp>>

\* A request arrives: input validation (lines 52-68), then the parts and the
\* payload are built and the loop is entered with attempt 0 and json_text
\* unassigned.
GQRequestOn(bodies) ==
    /\ gq_pc = "idle"
    /\ \E b \in bodies :
          /\ gq_req' = b
          /\ IF request_raises(b)
             THEN /\ gq_pc' = "done"
                  /\ gq_resp' = Response(400, NoValue, Error(InvalidJsonMsg, 0, ""))
                  /\ UNCHANGED <<attempt, contents_parts>>
             ELSE /\ gq_pc' = "attempt"
                  /\ contents_parts' = build_contents_parts(b)
                  /\ attempt' = 0
                  /\ UNCHANGED gq_resp
    /\ UNCHANGED <<json_text, hist, sleeps>>
    /\ UNCHANGED store_vars

GQRequest == GQRequestOn(RequestBodies)

\* One iteration of `for attempt in range(max_retries)`: the external call,
\* the try block and the except clause taken, up to the return or the
\* `continue` after the sleep.  Past the last iteration, line 194 returns.
GQAttemptOn(outcomes) ==
    /\ gq_pc = "attempt"
    /\ IF attempt < max_retries
       THEN \E o \in outcomes :
               LET r == try_block(o, json_text)
                   h == handle(o, attempt, r)
               IN  /\ hist' = Append(hist, o)
                   /\ json_text' = r.json_text
                   /\ sleeps' = sleeps \o h.slept
                   /\ IF h.act = "continue"
                      THEN /\ attempt' = attempt + 1
                           /\ UNCHANGED <<gq_pc, gq_resp>>
                      ELSE /\ gq_pc' = "done"
                           /\ gq_resp' = h.resp
                           /\ UNCHANGED attempt
       ELSE /\ gq_pc' = "done"
            /\ gq_resp' = Response(500, NoValue, Error(ExhaustedMsg, 0, ""))
            /\ UNCHANGED <<attempt, json_text, hist, sleeps>>
    /\ UNCHANGED <<gq_req, contents_parts>>
    /\ UNCHANGED store_vars

GQAttempt == GQAttemptOn(Outcomes)

InvokerNext == GQRequest \/ GQAttempt

-----------------------------------------------------------------------------
(* The session store and transcribe_audio.                                  *)

\* The worker threads of the server, and the session ids clients send.
Workers    == {"w1", "w2"}
SessionIds == {"s1", "s2"}

\* How many transcribe requests the model lets arrive.
MaxRequests == 2

SentinelText   == "[Could not understand audio - please speak clearly]"
RecognizedText == "my answer"

\* What lines 201-256 meet: the upload, the conversion and the recognizer.
TranscribeOutcomes == {"no_audio", "conversion_error", "read_error",
                       "request_error", "unknown_value", "recognized"}

\* The record of lines 264-269; the request number stands for the question
\* number, the file path and the timestamp of the request.
Record(n, text) == [question_number |-> n, transcription |-> text]

\* An entry of interview_sessions: the list object bound to the key, and the
\* records the object holds.
Entry(obj, recs) == [obj |-> obj, recs |-> recs]

TResponse(status, transcription, error) ==
    [status |-> status, transcription |-> transcription, error |-> error]
NoTResponse == TResponse(0, "", "")

\* The locals of one request, with the number of times it ran the
\* conversion and the recognition.
TLocal(session_id, n, text, ref, conversions, recognitions) ==
    [session_id |-> session_id, question_number |-> n, text |-> text, ref |-> ref,
     conversions |-> conversions, recognitions |-> recognitions]
NoTLocal == TLocal("", 0, "", 0, 0, 0)

\* Lines 223-252 are straight-line code: how often an outcome has run
\* AudioSegment.from_file/export and recognize_google.
conversions_run(outcome)  == IF outcome = "no_audio" THEN 0 ELSE 1
recognitions_run(outcome) ==
    IF outcome \in {"request_error", "unknown_value", "recognized"} THEN 1 ELSE 0

\* Lines 201-256: the failure response of an outcome that ends the request.
transcribe_failure(outcome) ==
    CASE outcome = "no_audio"         -> TResponse(400, "", "No audio file provided")
      [] outcome = "conversion_error" -> TResponse(500, "", "Audio conversion error")
      [] outcome = "request_error"    -> TResponse(500, "", "Speech recognition service error")
      [] OTHER                        -> TResponse(500, "", "Error reading audio file for transcription")

\* Lines 249-252: the text, for the outcomes that reach the store.
transcribed_text(outcome) ==
    IF outcome = "unknown_value" THEN SentinelText ELSE RecognizedText

\* Variant: the session entry is made sure of before the audio is handled.
TBegin_session_first(w) ==
    /\ t_pc[w] = "idle"
    /\ next_req < MaxRequests
    /\ \E sid \in SessionIds, outcome \in TranscribeOutcomes :
          /\ t_local' = [t_local EXCEPT
                           ![w] = TLocal(sid, next_req + 1,
                                         IF outcome \in {"unknown_value", "recognized"}
                                         THEN transcribed_text(outcome) ELSE "",
                                         0, conversions_run(outcome),
                                         recognitions_run(outcome))]
          /\ interview_sessions' =
                IF sid \in DOMAIN interview_sessions \/ outcome = "no_audio"
                THEN interview_sessions
                ELSE [k \in DOMAIN interview_sessions \cup {sid} |->
                         IF k = sid THEN Entry(next_list, <<>>) ELSE interview_sessions[k]]
          /\ IF outcome \in {"unknown_value", "recognized"}
             THEN /\ t_pc' = [t_pc EXCEPT ![w] = "check"]
                  /\ UNCHANGED t_resp
             ELSE /\ t_pc' = [t_pc EXCEPT ![w] = "done"]
                  /\ t_resp' = [t_resp EXCEPT ![w] = transcribe_failure(outcome)]
    /\ next_req' = next_req + 1
    /\ next_list' = next_list + 1
    /\ UNCHANGED <<r_pc, r_local, r_resp>>
    /\ UNCHANGED gq_vars

\* Lines 201-256: a request arrives on a free worker; the audio is read,
\* converted and recognized once.  A failure returns at once.
TBegin(w) ==
    /\ t_pc[w] = "idle"
    /\ next_req < MaxRequests
    /\ \E sid \in SessionIds, outcome \in TranscribeOutcomes :
          /\ t_local' = [t_local EXCEPT
                           ![w] = TLocal(sid, next_req + 1,
                                         IF outcome \in {"unknown_value", "recognized"}
                                         THEN transcribed_text(outcome) ELSE "",
                                         0, conversions_run(outcome),
                                         recognitions_run(outcome))]
          /\ IF outcome \in {"unknown_value", "recognized"}
             THEN /\ t_pc' = [t_pc EXCEPT ![w] = "check"]
                  /\ UNCHANGED t_resp
             ELSE /\ t_pc' = [t_pc EXCEPT ![w] = "done"]
                  /\ t_resp' = [t_resp EXCEPT ![w] = transcribe_failure(outcome)]
    /\ next_req' = next_req + 1
    /\ UNCHANGED <<interview_sessions, next_list, r_pc, r_local, r_resp>>
    /\ UNCHANGED gq_vars

\* Line 259: `if session_id not in interview_sessions`.
TCheck(w) ==
    /\ t_pc[w] = "check"
    /\ t_pc' = [t_pc EXCEPT ![w] =
                  IF t_local[w].session_id \in DOMAIN interview_sessions
                  THEN "fetch" ELSE "create"]
    /\ UNCHANGED <<interview_sessions, next_list, next_req, t_local, t_resp,
                   r_pc, r_local, r_resp>>
    /\ UNCHANGED gq_vars

\* interview_sessions[session_id] = [] : binds the key to a new empty list.
store_new_list(sessions, sid, obj) ==
    [k \in DOMAIN sessions \cup {sid} |->
        IF k = sid THEN Entry(obj, <<>>) ELSE sessions[k]]

\* Line 260.
TCreate(w) ==
    /\ t_pc[w] = "create"
    /\ interview_sessions' =
          store_new_list(interview_sessions, t_local[w].session_id, next_list)
    /\ next_list' = next_list + 1
    /\ t_pc' = [t_pc EXCEPT ![w] = "fetch"]
    /\ UNCHANGED <<next_req, t_local, t_resp, r_pc, r_local, r_resp>>
    /\ UNCHANGED gq_vars

\* Line 264, first half: interview_sessions[session_id] yields the list
\* object bound to the key now.
TFetch(w) ==
    /\ t_pc[w] = "fetch"
    /\ t_local' = [t_local EXCEPT
                     ![w].ref = interview_sessions[t_local[w].session_id].obj]
    /\ t_pc' = [t_pc EXCEPT ![w] = "append"]
    /\ UNCHANGED <<interview_sessions, next_list, next_req, t_resp, r_pc, r_local, r_resp>>
    /\ UNCHANGED gq_vars

\* list.append on the object `ref`: the store shows the record only while
\* the key is still bound to that object.
list_append(sessions, sid, ref, rec) ==
    IF sessions[sid].obj = ref
    THEN [sessions EXCEPT ![sid].recs = Append(@, rec)]
    ELSE sessions

\* Lines 264-274: the append, then the success response.
TAppend(w) ==
    /\ t_pc[w] = "append"
    /\ interview_sessions' =
          list_append(interview_sessions, t_local[w].session_id, t_local[w].ref,
                      Record(t_local[w].question_number, t_local[w].text))
    /\ t_resp' = [t_resp EXCEPT ![w] = TResponse(200, t_local[w].text, "")]
    /\ t_pc' = [t_pc EXCEPT ![w] = "done"]
    /\ UNCHANGED <<next_list, next_req, t_local, r_pc, r_local, r_resp>>
    /\ UNCHANGED gq_vars

transcribe_audio(w) == TBegin(w) \/ TCheck(w) \/ TCreate(w) \/ TFetch(w) \/ TAppend(w)

-----------------------------------------------------------------------------
(* get_session and export_session.                                          *)

RResponse(op, sid, status, data, error) ==
    [op |-> op, sid |-> sid, status |-> status, data |-> data, error |-> error]
NoRResponse == RResponse("", "", 0, <<>>, "")

RLocal(sid, artifact) == [sid |-> sid, artifact |-> artifact]
NoRLocal == RLocal("", <<>>)

\* Variant: the read binds an unknown id to a new list, as setdefault would.
get_session_setdefault(sid) ==
    /\ r_pc = "idle"
    /\ r_resp' = IF sid \in DOMAIN interview_sessions
                 THEN RResponse("get_session", sid, 200, interview_sessions[sid].recs, "")
                 ELSE RResponse("get_session", sid, 200, <<>>, "")
    /\ interview_sessions' =
          IF sid \in DOMAIN interview_sessions THEN interview_sessions
          ELSE store_new_list(interview_sessions, sid, next_list)
    /\ next_list' = IF sid \in DOMAIN interview_sessions THEN next_list ELSE next_list + 1
    /\ r_pc' = "done"
    /\ UNCHANGED <<next_req, t_pc, t_local, t_resp, r_local>>
    /\ UNCHANGED gq_vars

\* Lines 283-287.
get_session(sid) ==
    /\ r_pc = "idle"
    /\ r_resp' = IF sid \in DOMAIN interview_sessions
                 THEN RResponse("get_session", sid, 200, interview_sessions[sid].recs, "")
                 ELSE RResponse("get_session", sid, 200, <<>>, "")
    /\ r_pc' = "done"
    /\ UNCHANGED <<interview_sessions, next_list, next_req, t_pc, t_local, t_resp, r_local>>
    /\ UNCHANGED gq_vars

\* Lines 291-296: the existence test; an unknown id is answered 404.
ExportCheck(sid) ==
    /\ r_pc = "idle"
    /\ IF sid \notin DOMAIN interview_sessions
       THEN /\ r_resp' = RResponse("export_session", sid, 404, <<>>, "Session not found")
            /\ r_pc' = "done"
            /\ UNCHANGED r_local
       ELSE /\ r_local' = RLocal(sid, <<>>)
            /\ r_pc' = "export_write"
            /\ UNCHANGED r_resp
    /\ UNCHANGED <<interview_sessions, next_list, next_req, t_pc, t_local, t_resp>>
    /\ UNCHANGED gq_vars

\* Lines 298-299: json.dump of the list into the export file.
ExportWrite ==
    /\ r_pc = "export_write"
    /\ r_local' = [r_local EXCEPT !.artifact = interview_sessions[r_local.sid].recs]
    /\ r_pc' = "export_respond"
    /\ UNCHANGED <<interview_sessions, next_list, next_req, t_pc, t_local, t_resp, r_resp>>
    /\ UNCHANGED gq_vars

\* Lines 301-305: the response reads the list again.
ExportRespond ==
    /\ r_pc = "export_respond"
    /\ r_resp' = RResponse("export_session", r_local.sid, 200,
                           interview_sessions[r_local.sid].recs, "")
    /\ r_pc' = "done"
    /\ UNCHANGED <<interview_sessions, next_list, next_req, t_pc, t_local, t_resp, r_local>>
    /\ UNCHANGED gq_vars

export_session(sid) == ExportCheck(sid)

\* A response has been sent: the thread takes the next request.
TReturn(w) ==
    /\ t_pc[w] = "done"
    /\ t_pc' = [t_pc EXCEPT ![w] = "idle"]
    /\ t_local' = [t_local EXCEPT ![w] = NoTLocal]
    /\ t_resp' = [t_resp EXCEPT ![w] = NoTResponse]
    /\ UNCHANGED <<interview_sessions, next_list, next_req, r_pc, r_local, r_resp>>
    /\ UNCHANGED gq_vars

RReturn ==
    /\ r_pc = "done"
    /\ r_pc' = "idle"
    /\ r_local' = NoRLocal
    /\ r_resp' = NoRResponse
    /\ UNCHANGED <<interview_sessions, next_list, next_req, t_pc, t_local, t_resp>>
    /\ UNCHANGED gq_vars

\* The steps of the store endpoints with the request threads W.
StoreNextOf(W) ==
    \/ \E w \in W : TBegin(w)
    \/ \E w \in W : TCheck(w)
    \/ \E w \in W : TCreate(w)
    \/ \E w \in W : TFetch(w)
    \/ \E w \in W : TAppend(w)
    \/ \E w \in W : TReturn(w)
    \/ \E sid \in SessionIds : get_session(sid)
    \/ \E sid \in SessionIds : export_session(sid)
    \/ ExportWrite
    \/ ExportRespond
    \/ RReturn

StoreNext == StoreNextOf(Workers)

-----------------------------------------------------------------------------
(* The server after start-up: no request in progress, an empty store.       *)

Init ==
    /\ gq_pc = "idle"
    /\ gq_req = NoRequest
    /\ contents_parts = <<>>
    /\ attempt = 0
    /\ json_text = Unbound
    /\ hist = <<>>
    /\ sleeps = <<>>
    /\ gq_resp = NoResponse
    /\ interview_sessions = <<>>
    /\ next_list = 1
    /\ next_req = 0
    /\ t_pc = [w \in Workers |-> "idle"]
    /\ t_local = [w \in Workers |-> NoTLocal]
    /\ t_resp = [w \in Workers |-> NoTResponse]
    /\ r_pc = "idle"
    /\ r_local = NoRLocal
    /\ r_resp = NoRResponse

Next == InvokerNext \/ StoreNext

Spec == Init /\ [][Next]_vars

\* One generate_questions call against every upstream.
InvokerSpec == Init /\ [][InvokerNext]_vars

\* The call runs on: a request thread is never suspended for ever.
FairInvokerSpec == InvokerSpec /\ WF_vars(GQAttempt)

\* The store endpoints served by parallel threads.
StoreSpec == Init /\ [][StoreNext]_vars

\* One generate_questions call beside the store endpoints: one request body
\* and one upstream outcome of each class, one transcribe thread.
FewBodies == {Request("not_object", "", "", "", "", ""),
              Request("object", "JD64", "jd.pdf", "", "CV64", "cv.PDF")}
FewOutcomes == {Outcome("transport", 0, Body("none", "")),
                Outcome("http", 503, Body("raw", "overloaded")),
                Outcome("http", 200, Body("text", Q1Text)),
                Outcome("http", 200, Body("text", NumberElemText))}

ServerNext ==
    \/ GQRequestOn(FewBodies)
    \/ GQAttemptOn(FewOutcomes)
    \/ StoreNextOf({"w1"})

ServerSpec == Init /\ [][ServerNext]_vars

-----------------------------------------------------------------------------
(* Vocabulary of the properties.                                            *)

Last(seq) == seq[Len(seq)]

RECURSIVE SumSeq(_)
SumSeq(seq) == IF seq = <<>> THEN 0 ELSE Head(seq) + SumSeq(Tail(seq))

\* The delays 2^0, 2^1, ... after k failed attempts.
Delays(k) == [i \in 1..k |-> 2 ^ (i - 1)]

Is2xx(status) == status >= 200 /\ status < 300

\* An element that is an object with both fields.
ElemHasFields(q) == q.t = "object" /\ {"type", "text"} \subseteq q.has

\* The embedded text parses to a list whose elements all have both fields.
TextValid(text) ==
    LET parsed == json_loads(text)
    IN  /\ parsed.ok
        /\ parsed.val.t = "array"
        /\ \A i \in 1..Len(parsed.val.elems) : ElemHasFields(parsed.val.elems[i])

\* A 2xx response carrying a schema-valid payload.
ValidOutcome(o) ==
    o.kind = "http" /\ Is2xx(o.status) /\ o.body.shape = "text" /\ TextValid(o.body.text)

\* A 2xx response whose embedded payload is no list or has an element
\* lacking `type` or `text`.
EmbeddedInvalid(o) ==
    o.kind = "http" /\ Is2xx(o.status) /\ o.body.shape = "text" /\ ~TextValid(o.body.text)

\* A 2xx response whose payload does not match the structural contract.
SchemaInvalid(o) ==
    \/ EmbeddedInvalid(o)
    \/ o.kind = "http" /\ Is2xx(o.status)
       /\ o.body.shape \in {"not_json", "not_object", "empty_candidates"}

RetryableHttp(o) == o.kind = "http" /\ o.status \in RetryableStatuses
TransportFailure(o) == o.kind = "transport"

\* The retryable outcomes of the retry policy.
RetryableOutcome(o) == RetryableHttp(o) \/ TransportFailure(o) \/ EmbeddedInvalid(o)

IsSuccess(resp) == resp.status = 200 /\ resp.error = NoError /\ resp.questions # NoValue
Returned == gq_pc = "done"

-----------------------------------------------------------------------------
(* C1: for k in 0..2, k retryable outcomes (HTTP 429/500/503, transport     *)
(* failure, schema-validation failure) followed by a 2xx with a valid       *)
(* payload: the call returns that list after exactly k+1 external calls,    *)
(* having slept 2^i after failed attempt i and at no other time.  So after  *)
(* k < 3 retryable outcomes the call is still running with exactly those    *)
(* sleeps made, and a valid payload received next ends it with success.     *)
C1_RetryThenSuccess ==
    /\ (/\ hist # <<>>
        /\ Len(hist) < max_retries
        /\ \A i \in 1..Len(hist) : RetryableOutcome(hist[i]))
       => (gq_pc = "attempt" /\ sleeps = Delays(Len(hist)))
    /\ (/\ hist # <<>>
        /\ \A i \in 1..(Len(hist) - 1) : RetryableOutcome(hist[i])
        /\ ValidOutcome(Last(hist)))
       => (/\ Returned
           /\ gq_resp = Response(200, json_loads(Last(hist).body.text).val, NoError)
           /\ sleeps = Delays(Len(hist) - 1))

(* C2: whatever the upstream does, one call eventually returns a response,  *)
(* after at most 3 external calls and at most 2 sleeps whose total is at    *)
(* most 3 time units.                                                       *)
C2_BoundedAndTerminates ==
    /\ [](Len(hist) <= 3 /\ Len(sleeps) <= 2 /\ SumSeq(sleeps) <= 3)
    /\ (gq_pc = "attempt" ~> Returned)

C2_Witness ==
    Returned /\ Len(hist) = 3 /\ Len(sleeps) = 2 /\ SumSeq(sleeps) = 3

(* C3: three attempts all answered with retryable HTTP statuses: the call   *)
(* has returned (no further call) a failure carrying the status and the     *)
(* error body of the third attempt.                                         *)
C3_FinalHttpFailureSurfaced ==
    (Len(hist) = 3 /\ \A i \in 1..3 : RetryableHttp(hist[i]))
    => (/\ Returned
        /\ gq_resp = Response(hist[3].status, NoValue,
                              Error(HttpFailedMsg, hist[3].status, hist[3].body.text)))

C3_Witness ==
    /\ Returned
    /\ Len(hist) = 3
    /\ \A i \in 1..3 : RetryableHttp(hist[i])
    /\ hist[1].status # hist[3].status
    /\ hist[2].body # hist[3].body
    /\ gq_resp.status = hist[3].status
    /\ gq_resp.error.detail = hist[3].body.text

\* The call has ended on the outcome it received last, surfacing its status
\* and body, every earlier attempt having been followed by one sleep.
TerminalOn(o) ==
    /\ Returned
    /\ gq_resp = Response(o.status, NoValue, Error(HttpFailedMsg, o.status, o.body.text))
    /\ Len(sleeps) = Len(hist) - 1

(* C4 as stated: every non-2xx status outside {429, 500, 503} is terminal   *)
(* at whichever attempt it occurs, with status and body surfaced.           *)
C4_AnyNon2xxTerminal ==
    (/\ hist # <<>>
     /\ Last(hist).kind = "http"
     /\ ~Is2xx(Last(hist).status)
     /\ Last(hist).status \notin RetryableStatuses)
    => TerminalOn(Last(hist))

(* C4 amended: every 4xx or 5xx status outside {429, 500, 503} is terminal  *)
(* at whichever attempt it occurs: the call returns at once with that       *)
(* status and body, without a sleep and without a further call.             *)
C4_ErrorStatusTerminal ==
    (/\ hist # <<>>
     /\ Last(hist).kind = "http"
     /\ Last(hist).status >= 400 /\ Last(hist).status < 600
     /\ Last(hist).status \notin RetryableStatuses)
    => TerminalOn(Last(hist))

C4_Witness ==
    /\ Returned
    /\ Len(hist) = 2
    /\ Last(hist).kind = "http"
    /\ Last(hist).status = 400
    /\ gq_resp.status = 400
    /\ sleeps = <<1>>

\* The response of an exception that no except clause caught.
Unhandled(resp) == resp.error.msg = UnhandledMsg

(* C5: a success is a list whose elements all have `type` and `text`; a     *)
(* 2xx response whose embedded payload is no list, or has an element        *)
(* lacking one of them, is never a success but a retryable                  *)
(* schema-validation failure (retried while attempts remain, a             *)
(* structural-parse failure after the last).  Exceptions that leave the     *)
(* loop are set aside here.                                                 *)
C5_SuccessIsSchemaValid ==
    /\ (Returned /\ IsSuccess(gq_resp))
       => (/\ gq_resp.questions.t = "array"
           /\ \A i \in 1..Len(gq_resp.questions.elems) :
                 ElemHasFields(gq_resp.questions.elems[i]))
    /\ (hist # <<>> /\ EmbeddedInvalid(Last(hist)) /\ ~(Returned /\ Unhandled(gq_resp)))
       => IF Len(hist) < max_retries
          THEN gq_pc = "attempt"
          ELSE Returned /\ gq_resp.error.msg = ParseFailedMsg

\* The attempt ends in the except clause of lines 180-185.
CaughtAsSchemaFailure(o) == try_block(o, Unbound).exc \in {"JSONDecodeError", "ValueError"}

(* C6: the budget exhausted with a schema-validation failure on the final   *)
(* attempt (a 2xx response that the loop catches as a JSON/schema error):   *)
(* the failure returned is a structural-parse failure, not an               *)
(* HTTP-classified one, and carries the raw text of that last attempt.      *)
C6_ParseFailureCarriesLastText ==
    (/\ Len(hist) = max_retries
     /\ SchemaInvalid(Last(hist))
     /\ CaughtAsSchemaFailure(Last(hist)))
    => (/\ Returned
        /\ gq_resp.status = 500
        /\ gq_resp.error.msg = ParseFailedMsg
        /\ gq_resp.error.msg # HttpFailedMsg
        /\ gq_resp.error.detail = Last(hist).body.text)

\* The call has returned the failure of the outcome it received last.
FailedOnLast(P(_)) == Returned /\ hist # <<>> /\ ~IsSuccess(gq_resp) /\ P(Last(hist))

RateLimitOr5xx(o) == o.kind = "http" /\ (o.status = 429 \/ (o.status >= 500 /\ o.status < 600))
TransientAsStated(o) == RateLimitOr5xx(o) \/ TransportFailure(o)
TransientRetried(o)  == RetryableHttp(o) \/ TransportFailure(o)

(* C7 as stated: a failure caused by a rate limit, an upstream 5xx or a     *)
(* transport failure is returned only after exactly 3 external calls.       *)
C7_Any5xxAfterBudget ==
    FailedOnLast(TransientAsStated) => Len(hist) = max_retries

(* C7 amended: a failure caused by HTTP 429, 500 or 503 or by a transport   *)
(* failure is returned only after exactly 3 external calls.                 *)
C7_TransientAfterBudget ==
    FailedOnLast(TransientRetried) => Len(hist) = max_retries

C7_Witness ==
    /\ FailedOnLast(TransportFailure)
    /\ Len(hist) = max_retries
    /\ gq_resp.error.msg = NetworkMsg
    /\ RetryableHttp(hist[1])

(* C8: every response carries either a question list and no error, or an   *)
(* error and no questions; a failure on an HTTP error carries the status of *)
(* the final attempt; a failure on a schema-invalid payload or a transport  *)
(* failure carries 500 and comes only after all 3 attempts.                 *)
C8_AllOrNothing ==
    Returned =>
      /\ (gq_resp.questions = NoValue) # (gq_resp.error = NoError)
      /\ (hist # <<>> /\ Last(hist).kind = "http" /\ raise_for_status(Last(hist).status))
         => (~IsSuccess(gq_resp) /\ gq_resp.status = Last(hist).status)
      /\ (hist # <<>> /\ (SchemaInvalid(Last(hist)) \/ TransportFailure(Last(hist))))
         => (~IsSuccess(gq_resp) /\ gq_resp.status = 500 /\ Len(hist) = max_retries)

-----------------------------------------------------------------------------
(* Properties of the session store.                                         *)

Records(sid) ==
    IF sid \in DOMAIN interview_sessions
    THEN {interview_sessions[sid].recs[i] : i \in 1..Len(interview_sessions[sid].recs)}
    ELSE {}

Succeeded(w) == t_pc[w] = "done" /\ t_resp[w].status = 200

(* C9: transcribe requests processed in parallel lose no record: once all   *)
(* of them have returned success, the record of each is in the sequence of  *)
(* its session, for different ids and for one id absent before.             *)
C9_NoRecordLost ==
    (\A w \in Workers : Succeeded(w))
    => \A w \in Workers :
          Record(t_local[w].question_number, t_local[w].text)
              \in Records(t_local[w].session_id)

(* C10: get_session on an id without records returns the empty sequence,   *)
(* not an error, and export_session on an unknown id returns not-found;     *)
(* neither creates an entry, so the store is as before and a following      *)
(* export_session on that id is still answered not-found.                   *)
C10_ReadsCreateNothing ==
    [][(r_pc = "idle" /\ r_pc' = "done" /\ Records(r_resp'.sid) = {})
       => (/\ interview_sessions' = interview_sessions
           /\ r_resp'.op = "get_session"
              => (r_resp'.status = 200 /\ r_resp'.data = <<>> /\ r_resp'.error = "")
           /\ (r_resp'.op = "export_session" /\ r_resp'.sid \notin DOMAIN interview_sessions)
              => (r_resp'.status = 404 /\ r_resp'.error = "Session not found"))]_vars

C10_Witness ==
    /\ r_pc = "done"
    /\ r_resp.op = "get_session"
    /\ r_resp.sid \notin DOMAIN interview_sessions
    /\ r_resp.data = <<>>
    /\ \E sid \in DOMAIN interview_sessions : interview_sessions[sid].recs # <<>>


-----------------------------------------------------------------------------
(* Properties of the request handling and of the assembled parts.           *)

Assembled == contents_parts # <<>>

\* The instruction text: the sentences of the last part.
InstructionText == Last(contents_parts).query

\* The counts the instruction text states for one kind of sentence.
StatedCounts(kind) ==
    {InstructionText[i].count : i \in {j \in 1..Len(InstructionText) :
                                          InstructionText[j].kind = kind}}

JobSupplied == gq_req.job_file_data # "" \/ gq_req.job_description # ""
CvSupplied  == gq_req.cv_file_data # ""

(* C14 as stated: for every combination of inputs the instruction text      *)
(* states the total 20, the job-derived count 15 and the CV-derived count   *)
(* 5, and the two counts sum to the total.                                  *)
C14_AllCountsAlways ==
    Assembled =>
      /\ StatedCounts("total") = {20}
      /\ StatedCounts("job") = {15}
      /\ StatedCounts("cv") = {5}
      /\ \A j \in StatedCounts("job"), c \in StatedCounts("cv"), t \in StatedCounts("total") :
            j + c = t

(* C14 amended: the instruction text always states the total 20; it states  *)
(* the job-derived count 15 exactly when a job document or job text is      *)
(* supplied and the CV-derived count 5 exactly when a CV is supplied; when  *)
(* both are stated they sum to the stated total.                            *)
C14_CountsOfSuppliedSources ==
    Assembled =>
      /\ StatedCounts("total") = {20}
      /\ StatedCounts("job") = (IF JobSupplied THEN {15} ELSE {})
      /\ StatedCounts("cv") = (IF CvSupplied THEN {5} ELSE {})
      /\ \A j \in StatedCounts("job"), c \in StatedCounts("cv"), t \in StatedCounts("total") :
            j + c = t

C14_Witness ==
    /\ Assembled
    /\ gq_req.job_file_data # ""
    /\ CvSupplied
    /\ StatedCounts("job") = {15}
    /\ StatedCounts("cv") = {5}
    /\ StatedCounts("total") = {20}

IsInstruction(part) == part.kind = "text" /\ part.query # <<>>
IsDocument(part, data) == part.kind = "inlineData" /\ part.data = data /\ part.query = <<>>
IsJobText(part) == part.kind = "text" /\ part.data = gq_req.job_description /\ part.query = <<>>

JobPartCount == IF JobSupplied THEN 1 ELSE 0
CvPartCount  == IF CvSupplied THEN 1 ELSE 0

(* C15: the parts are the job part, then the CV part, then the instruction: *)
(* at most one job part (the document when one is supplied, even with text  *)
(* supplied too; the text only without a document; none without both), at   *)
(* most one CV part after it, and exactly one instruction part, the last;   *)
(* so between 1 and 3 parts.                                                *)
C15_PartsInOrder ==
    Assembled =>
      /\ Len(contents_parts) = JobPartCount + CvPartCount + 1
      /\ Len(contents_parts) \in 1..3
      /\ \A i \in 1..Len(contents_parts) :
            IsInstruction(contents_parts[i]) <=> i = Len(contents_parts)
      /\ gq_req.job_file_data # ""
         => IsDocument(contents_parts[1], gq_req.job_file_data)
      /\ (gq_req.job_file_data = "" /\ gq_req.job_description # "")
         => IsJobText(contents_parts[1])
      /\ CvSupplied
         => IsDocument(contents_parts[JobPartCount + 1], gq_req.cv_file_data)

C15_Witness ==
    /\ Assembled
    /\ Len(contents_parts) = 3
    /\ gq_req.job_file_data # ""
    /\ gq_req.job_description # ""
    /\ IsDocument(contents_parts[1], gq_req.job_file_data)
    /\ IsDocument(contents_parts[2], gq_req.cv_file_data)
    /\ IsInstruction(contents_parts[3])

(* C17: a request body that is unparseable or no JSON object is answered    *)
(* at once with a client 4xx error: no external call, no sleep.             *)
C17_MalformedBodyRejected ==
    gq_req.kind \in {"unparseable", "not_object"}
    => (/\ Returned
        /\ gq_resp.status >= 400 /\ gq_resp.status < 500
        /\ gq_resp.error.msg = InvalidJsonMsg
        /\ gq_resp.questions = NoValue
        /\ hist = <<>>
        /\ sleeps = <<>>
        /\ ~Assembled)

C17_Witness ==
    /\ Returned
    /\ gq_req.kind = "not_object"
    /\ gq_resp.status = 400
    /\ hist = <<>>

\* The 2xx body shapes that are no valid payload: outer body no JSON,
\* `candidates` empty, embedded payload invalid (elements that are no
\* objects included).
MisshapenBody(o) ==
    /\ o.kind = "http"
    /\ Is2xx(o.status)
    /\ \/ o.body.shape \in {"not_json", "empty_candidates"}
       \/ o.body.shape = "text" /\ ~TextValid(o.body.text)

(* C19: every attempt ends classified: for every shape of 2xx body the      *)
(* attempt is handled as a retryable schema-validation failure (retried     *)
(* while attempts remain, a structural-parse failure after the last) and    *)
(* no unclassified error leaves the retry loop.                             *)
C19_EveryAttemptClassified ==
    /\ Returned => ~Unhandled(gq_resp)
    /\ (hist # <<>> /\ MisshapenBody(Last(hist)))
       => IF Len(hist) < max_retries
          THEN gq_pc = "attempt" /\ sleeps = Delays(Len(hist))
          ELSE Returned /\ gq_resp.error.msg = ParseFailedMsg

\* A 2xx response that carries no candidate text.
NoCandidateText(o) ==
    o.kind = "http" /\ Is2xx(o.status) /\ o.body.shape \in {"no_candidates", "no_text"}

(* C20: a 2xx response without candidate text (no `candidates` key, or a    *)
(* candidate without content, parts or text) is read as the empty JSON      *)
(* array: the call returns a success with an empty question list on that    *)
(* attempt, without retrying and without sleeping.                          *)
C20_NoCandidateIsEmptySuccess ==
    (hist # <<>> /\ NoCandidateText(Last(hist)))
    => (/\ Returned
        /\ gq_resp = Response(200, JsonValue("array", <<>>), NoError)
        /\ json_text = "[]"
        /\ Len(sleeps) = Len(hist) - 1)

C20_Witness ==
    /\ Returned
    /\ Len(hist) = 2
    /\ NoCandidateText(Last(hist))
    /\ Last(hist).body.shape = "no_candidates"
    /\ IsSuccess(gq_resp)
    /\ gq_resp.questions.elems = <<>>
    /\ sleeps = <<1>>


-----------------------------------------------------------------------------
(* Properties of transcribe_audio and of the store, continued.              *)

\* How often the record of worker w's request stands in its session.
Occurrences(w) ==
    IF t_local[w].session_id \in DOMAIN interview_sessions
    THEN Cardinality({i \in 1..Len(interview_sessions[t_local[w].session_id].recs) :
                        interview_sessions[t_local[w].session_id].recs[i]
                            = Record(t_local[w].question_number, t_local[w].text)})
    ELSE 0

(* C11: audio the recognizer cannot understand: the request returns a       *)
(* success whose transcription is the sentinel text, and exactly one record *)
(* carrying the sentinel has been appended to its session.                  *)
C11_SentinelRecorded ==
    \A w \in Workers :
       (t_pc[w] = "done" /\ t_local[w].recognitions = 1 /\ t_local[w].text = SentinelText)
       => (/\ t_resp[w] = TResponse(200, SentinelText, "")
           /\ Occurrences(w) = 1)

(* C12: every session sequence is append-only: a step leaves it unchanged   *)
(* or extends it by one record at the end, a session once created stays,    *)
(* and get_session returns the records in append order.                     *)
C12_AppendOnly ==
    [][/\ \A sid \in DOMAIN interview_sessions :
             /\ sid \in DOMAIN interview_sessions'
             /\ \/ interview_sessions'[sid].recs = interview_sessions[sid].recs
                \/ \E rec \in {Record(t_local[w].question_number, t_local[w].text) :
                                  w \in Workers} :
                      interview_sessions'[sid].recs
                          = Append(interview_sessions[sid].recs, rec)
       /\ (r_pc = "idle" /\ r_pc' = "done" /\ r_resp'.op = "get_session"
           /\ r_resp'.sid \in DOMAIN interview_sessions)
          => r_resp'.data = interview_sessions[r_resp'.sid].recs]_vars

(* C13: a transcribe request that fails (no audio part, conversion failure, *)
(* recognition service failing) returns at once, having run the conversion  *)
(* and the recognition at most once, and leaves the store as it was: no     *)
(* record appended, no session entry created.                               *)
C13_FailureLeavesStore ==
    [][\A w \in Workers :
          (t_pc[w] = "idle" /\ t_pc'[w] # "idle")
          => /\ t_local'[w].conversions <= 1
             /\ t_local'[w].recognitions <= 1
             /\ interview_sessions' = interview_sessions
             /\ t_local'[w].text = ""
                => (/\ t_pc'[w] = "done"
                    /\ t_resp'[w].status \in {400, 500}
                    /\ t_resp'[w].error # ""
                    /\ t_resp'[w].transcription = "")]_vars

C13_Witness ==
    \E w \in Workers :
       /\ t_pc[w] = "done"
       /\ t_resp[w].status = 500
       /\ t_local[w].conversions = 1
       /\ t_local[w].recognitions = 1
       /\ t_local[w].session_id \notin DOMAIN interview_sessions
       /\ interview_sessions # <<>>

(* C18: a successful export_session returns in its response exactly the     *)
(* sequence it wrote to the export file, also when a transcribe append to   *)
(* the session runs between the write and the response.                     *)
C18_ExportReturnsWhatItWrote ==
    (r_pc = "done" /\ r_resp.op = "export_session" /\ r_resp.status = 200)
    => r_resp.data = r_local.artifact

(* C16: generate_questions never touches the store or the export file: a    *)
(* step of it, whatever the body and whatever the upstream does, leaves     *)
(* every session's records as they were and creates no session identifier.  *)
C16_GenerateLeavesStore ==
    [][gq_vars' # gq_vars
       => /\ interview_sessions' = interview_sessions
          /\ next_list' = next_list
          /\ r_local' = r_local]_vars

C16_Witness ==
    /\ Returned
    /\ hist # <<>>
    /\ interview_sessions # <<>>
    /\ \E sid \in DOMAIN interview_sessions : interview_sessions[sid].recs # <<>>

====
